---- MODULE Spec2Model ----
(***************************************************************************)
(* Model of the RCIP recipe validator (validators/python/rcip_validator.py) *)
(*                                                                         *)
(* A recipe document is a JSON object, modelled as a function from the     *)
(* keys it carries to their values ('k' in d  is  k \in DOMAIN d).         *)
(* Identifiers and reference targets are Python strings, modelled as       *)
(* tuples of one-character strings so that startswith, the `in` substring  *)
(* test, split and the identifier patterns are computed as the code        *)
(* computes them.  Values whose Python type the code inspects with         *)
(* isinstance carry a type tag.  Documents range over JSON objects whose   *)
(* identifier fields, when present, are strings and whose containers are   *)
(* objects and arrays of objects (the entity shapes of the data model).    *)
(* A finding is the tuple <<format string, interpolated values...>> of the *)
(* f-string that produces it.                                              *)
(***************************************************************************)
EXTENDS Integers, Sequences, FiniteSets, TLC

VARIABLES
    schema_version,   \* self.schema_version
    validator,        \* self.validator: None, or the validator of the loaded schema
    stats,            \* self.stats
    recipe,           \* the document the caller holds
    call              \* the last call on the validator: operation, argument, outcome

vars == <<schema_version, validator, stats, recipe, call>>

(***************************************************************************)
(* Bounds of the model.                                                    *)
(***************************************************************************)
MaxIngredients == 2
MaxSteps == 2
MaxFiles == 2
MaxValidated == 2

(***************************************************************************)
(* Python strings as tuples of characters.                                 *)
(***************************************************************************)
Digits == {"0", "1", "2", "3", "4", "5", "6", "7", "8", "9"}
HexLower == Digits \cup {"a", "b", "c", "d", "e", "f"}
Lower == {"a", "b", "c", "d", "e", "f", "g", "h", "i", "j", "k", "l", "m",
          "n", "o", "p", "q", "r", "s", "t", "u", "v", "w", "x", "y", "z"}
Upper == {"A", "B", "C", "D", "E", "F", "G", "H", "I", "J", "K", "L", "M",
          "N", "O", "P", "Q", "R", "S", "T", "U", "V", "W", "X", "Y", "Z"}
AlNum == Digits \cup Lower \cup Upper

\* str.startswith(prefix)
StartsWith(s, prefix) ==
    /\ Len(s) >= Len(prefix)
    /\ SubSeq(s, 1, Len(prefix)) = prefix

\* needle in s  (substring test)
Contains(s, needle) ==
    \E i \in 1..(Len(s) - Len(needle) + 1) :
        SubSeq(s, i, i + Len(needle) - 1) = needle

\* s.split(sep)[0] for a one-character separator: the part before its first
\* occurrence, the whole string when there is none
RECURSIVE SplitFirst(_, _)
SplitFirst(s, sep) ==
    IF s = <<>> \/ Head(s) = sep THEN <<>>
    ELSE <<Head(s)>> \o SplitFirst(Tail(s), sep)

\* In a Python pattern '$' matches at the end of the string and also just
\* before a newline that ends the string: the candidates a '^...$' pattern
\* has to match in full.
DollarCandidates(s) ==
    {s} \cup (IF s # <<>> /\ s[Len(s)] = "\n" THEN {SubSeq(s, 1, Len(s) - 1)} ELSE {})

\* prefix followed by one or more characters of class
PrefixThenClass(b, prefix, class) ==
    /\ Len(b) > Len(prefix)
    /\ SubSeq(b, 1, Len(prefix)) = prefix
    /\ \A i \in (Len(prefix) + 1)..Len(b) : b[i] \in class

STR_ING == <<"i", "n", "g", "-">>
STR_S == <<"s", "-">>
STR_RCIP == <<"r", "c", "i", "p", "-">>
STR_RESULT == <<":", "r", "e", "s", "u", "l", "t">>
STR_QUESTION == <<"?">>

\* INGREDIENT_ID_PATTERN = ^ing-[0-9a-zA-Z]+$
INGREDIENT_ID_PATTERN(s) ==
    \E b \in DollarCandidates(s) : PrefixThenClass(b, STR_ING, AlNum)

\* STEP_ID_PATTERN = ^s-[0-9a-zA-Z]+$
STEP_ID_PATTERN(s) ==
    \E b \in DollarCandidates(s) : PrefixThenClass(b, STR_S, AlNum)

\* RECIPE_ID_PATTERN = ^rcip-[0-9a-f]{8}-[0-9a-f]{4}-[0-9a-f]{4}-[0-9a-f]{4}-[0-9a-f]{12}$
RECIPE_ID_PATTERN(s) ==
    \E b \in DollarCandidates(s) :
        /\ Len(b) = 41
        /\ SubSeq(b, 1, 5) = STR_RCIP
        /\ \A i \in 6..41 :
            IF i \in {14, 19, 24, 29} THEN b[i] = "-" ELSE b[i] \in HexLower

(***************************************************************************)
(* Controlled vocabularies.                                                *)
(***************************************************************************)
Allergen ==
    {"milk", "eggs", "fish", "shellfish", "tree-nuts", "peanuts", "wheat",
     "gluten", "soybeans", "sesame", "celery", "mustard", "molluscs",
     "lupins", "sulphites", "lactose"}

CookingAction ==
    {"add", "mix", "combine", "blend", "cut", "slice", "dice", "chop",
     "mince", "heat", "boil", "simmer", "steam", "fry", "saute", "bake",
     "roast", "grill", "cool", "chill", "freeze", "knead", "fold", "roll",
     "shape", "ferment", "proof", "rest", "strain", "filter", "separate",
     "measure", "weigh", "wait", "dissolve", "prepare", "spread", "garnish",
     "divide"}

Unit ==
    {"mg", "g", "kg", "oz", "lb", "ml", "l", "tsp", "tbsp", "cup", "fl-oz",
     "pt", "qt", "gal", "pcs", "dozen", "pinch", "dash", "handful",
     "to-taste"}

valid_hazards ==
    {"hot-surface", "sharp-tool", "electrical", "chemical", "pressure",
     "allergen-cross-contact"}

(***************************************************************************)
(* JSON values.                                                            *)
(***************************************************************************)
JList(items) == [type |-> "list", items |-> items]
JStr(chars) == [type |-> "str", chars |-> chars]
JNum(n) == [type |-> "num", num |-> n]

\* d.get(k, default)
Get(d, k, default) == IF k \in DOMAIN d THEN d[k] ELSE default

\* the empty JSON object
EmptyObject == [k \in {} |-> TRUE]


(***************************************************************************)
(* ValidationResult and ValidationStats.                                   *)
(***************************************************************************)
\* ValidationResult whose errors list is one list shared by every instance:
\* it still holds what the previous validate_recipe call appended
ValidationResult_SharedErrors(valid, errors) ==
    [valid |-> valid,
     errors |-> (IF call.op = "validate_recipe" /\ call.raised = "none"
                   THEN call.value.errors ELSE <<>>) \o errors,
     warnings |-> <<>>,
     info |-> EmptyObject]

\* ValidationResult(valid=True): errors, warnings and info are built afresh
\* for every instance (default_factory)
ValidationResult(valid, errors) ==
    [valid |-> valid, errors |-> errors, warnings |-> <<>>, info |-> EmptyObject]

ValidationStats == [validated |-> 0, passed |-> 0, failed |-> 0]

\* result.errors.append(m)
AppendError(r, m) == [r EXCEPT !.errors = Append(@, m)]

\* result.valid = False; result.errors.append(m)
FailWith(r, m) == [r EXCEPT !.valid = FALSE, !.errors = Append(@, m)]

\* result.warnings.append(m)
AppendWarning(r, m) == [r EXCEPT !.warnings = Append(@, m)]

(***************************************************************************)
(* Schema conformance (Draft7Validator over the loaded schema).  A schema  *)
(* is modelled by its top-level "required" keyword; {} accepts anything.   *)
(***************************************************************************)
\* validator.iter_errors(recipe): one violation per missing required key,
\* in schema order, each with an empty path
RECURSIVE IterErrors(_, _)
IterErrors(required, doc) ==
    IF required = <<>> THEN <<>>
    ELSE (IF Head(required) \in DOMAIN doc
            THEN <<>>
            ELSE << [path |-> <<>>, message |-> <<"'{}' is a required property", Head(required)>>] >>)
         \o IterErrors(Tail(required), doc)

RECURSIVE SchemaErrorLines(_)
SchemaErrorLines(violations) ==
    IF violations = <<>> THEN <<>>
    ELSE << <<"{}: {}", Head(violations).path, Head(violations).message>> >>
         \o SchemaErrorLines(Tail(violations))

\* the try/except around validator.validate(recipe)
SchemaValidation(schema, doc, r) ==
    LET violations == IterErrors(schema.required, doc) IN
    IF violations = <<>> THEN r
    ELSE [r EXCEPT
            !.valid = FALSE,
            !.errors = (Append(@, <<"Schema validation failed: {}", Head(violations).message>>))
                       \o SchemaErrorLines(violations)]

(***************************************************************************)
(* Semantic rule engine.                                                   *)
(***************************************************************************)
RECURSIVE CheckAllergens(_, _, _)
CheckAllergens(items, index, r) ==
    IF items = <<>> THEN r
    ELSE CheckAllergens(Tail(items), index,
            IF Head(items) \notin Allergen
              THEN AppendError(r, <<"Ingredient {}: Invalid allergen '{}'", index, Head(items)>>)
              ELSE r)

\* ValidateAllergens with the missing field recorded but valid left alone
ValidateAllergens_ValidKept(ingredient, index, r) ==
    IF "allergens" \notin DOMAIN ingredient
      THEN AppendError(r, <<"Ingredient {}: Missing required allergens field", index>>)
    ELSE IF ingredient["allergens"].type # "list"
      THEN FailWith(r, <<"Ingredient {}: allergens must be an array", index>>)
    ELSE CheckAllergens(ingredient["allergens"].items, index, r)

\* the allergens block of _validate_ingredient
ValidateAllergens(ingredient, index, r) ==
    IF "allergens" \notin DOMAIN ingredient
      THEN FailWith(r, <<"Ingredient {}: Missing required allergens field", index>>)
    ELSE IF ingredient["allergens"].type # "list"
      THEN FailWith(r, <<"Ingredient {}: allergens must be an array", index>>)
    ELSE CheckAllergens(ingredient["allergens"].items, index, r)

\* the machine_amount block of _validate_ingredient
ValidateMachineAmount(ingredient, index, r) ==
    IF "machine_amount" \notin DOMAIN ingredient THEN r
    ELSE
      LET ma == ingredient["machine_amount"]
          r1 == IF \/ "value" \notin DOMAIN ma
                   \/ ma["value"].type # "num"
                   \/ ma["value"].num < 0
                  THEN AppendError(r, <<"Ingredient {}: machine_amount.value must be non-negative number", index>>)
                  ELSE r
      IN  IF "unit" \notin DOMAIN ma
            THEN AppendError(r1, <<"Ingredient {}: machine_amount.unit is required", index>>)
          ELSE IF ma["unit"] \notin Unit
            THEN AppendWarning(r1, <<"Ingredient {}: Non-standard unit '{}'", index, ma["unit"]>>)
          ELSE r1

_validate_ingredient(ingredient, index, r) ==
    LET r1 == IF "id" \in DOMAIN ingredient /\ ~INGREDIENT_ID_PATTERN(ingredient["id"])
                THEN FailWith(r, <<"Ingredient {}: Invalid ID format: {}", index, ingredient["id"]>>)
                ELSE r
    IN  ValidateMachineAmount(ingredient, index, ValidateAllergens(ingredient, index, r1))

RECURSIVE CheckHazards(_, _, _)
CheckHazards(items, index, r) ==
    IF items = <<>> THEN r
    ELSE CheckHazards(Tail(items), index,
            IF Head(items) \notin valid_hazards
              THEN AppendWarning(r, <<"Step {}: Non-standard hazard '{}'", index, Head(items)>>)
              ELSE r)

_validate_step(step, index, r) ==
    LET r1 == IF "step_id" \in DOMAIN step /\ ~STEP_ID_PATTERN(step["step_id"])
                THEN FailWith(r, <<"Step {}: Invalid ID format: {}", index, step["step_id"]>>)
                ELSE r
        r2 == IF "action" \in DOMAIN step /\ step["action"] \notin CookingAction
                THEN AppendError(r1, <<"Step {}: Invalid action '{}'", index, step["action"]>>)
                ELSE r1
    IN  IF "hazards" \in DOMAIN step /\ step["hazards"].type = "list"
          THEN CheckHazards(step["hazards"].items, index, r2)
          ELSE r2

\* for i, x in enumerate(seq): f(x, i, result)    (index counts from 0)
RECURSIVE ForEachIngredient(_, _, _)
ForEachIngredient(seq, index, r) ==
    IF seq = <<>> THEN r
    ELSE ForEachIngredient(Tail(seq), index + 1, _validate_ingredient(Head(seq), index, r))

RECURSIVE ForEachStep(_, _, _)
ForEachStep(seq, index, r) ==
    IF seq = <<>> THEN r
    ELSE ForEachStep(Tail(seq), index + 1, _validate_step(Head(seq), index, r))

(***************************************************************************)
(* Reference integrity.                                                    *)
(***************************************************************************)
\* {x[key] for x in seq if key in x}
IdSet(seq, key) == {seq[i][key] : i \in {j \in DOMAIN seq : key \in DOMAIN seq[j]}}

\* CheckTarget with the step's identifier read from the key 'id'
CheckTarget_WrongKey(target, step, ingredient_ids, step_ids, r) ==
    IF target.type # "str" THEN r
    ELSE IF StartsWith(target.chars, STR_ING) /\ target.chars \notin ingredient_ids
      THEN AppendError(r, <<"Step {}: Invalid ingredient reference '{}'",
                            Get(step, "id", STR_QUESTION), target.chars>>)
    ELSE IF Contains(target.chars, STR_RESULT)
      THEN (IF SplitFirst(target.chars, ":") \notin step_ids
              THEN AppendError(r, <<"Step {}: Invalid step reference '{}'",
                                    Get(step, "id", STR_QUESTION), target.chars>>)
              ELSE r)
    ELSE r

\* the body of the loop over step['target'] for one entry
CheckTarget(target, step, ingredient_ids, step_ids, r) ==
    IF target.type # "str" THEN r
    ELSE IF StartsWith(target.chars, STR_ING) /\ target.chars \notin ingredient_ids
      THEN AppendError(r, <<"Step {}: Invalid ingredient reference '{}'",
                            Get(step, "step_id", STR_QUESTION), target.chars>>)
    ELSE IF Contains(target.chars, STR_RESULT)
      THEN (IF SplitFirst(target.chars, ":") \notin step_ids
              THEN AppendError(r, <<"Step {}: Invalid step reference '{}'",
                                    Get(step, "step_id", STR_QUESTION), target.chars>>)
              ELSE r)
    ELSE r

RECURSIVE CheckTargets(_, _, _, _, _)
CheckTargets(targets, step, ingredient_ids, step_ids, r) ==
    IF targets = <<>> THEN r
    ELSE CheckTargets(Tail(targets), step, ingredient_ids, step_ids,
                      CheckTarget(Head(targets), step, ingredient_ids, step_ids, r))

RECURSIVE CheckStepTargets(_, _, _, _)
CheckStepTargets(steps, ingredient_ids, step_ids, r) ==
    IF steps = <<>> THEN r
    ELSE CheckStepTargets(Tail(steps), ingredient_ids, step_ids,
            IF "target" \in DOMAIN Head(steps) /\ Head(steps)["target"].type = "list"
              THEN CheckTargets(Head(steps)["target"].items, Head(steps),
                                ingredient_ids, step_ids, r)
              ELSE r)

RECURSIVE CheckDeviceRefs(_, _, _)
CheckDeviceRefs(steps, device_ids, r) ==
    IF steps = <<>> THEN r
    ELSE CheckDeviceRefs(Tail(steps), device_ids,
            IF /\ "device_profile_ref" \in DOMAIN Head(steps)
               /\ Head(steps)["device_profile_ref"] \notin device_ids
              THEN AppendWarning(r, <<"Step {}: Unknown device profile '{}'",
                                      Get(Head(steps), "step_id", STR_QUESTION),
                                      Head(steps)["device_profile_ref"]>>)
              ELSE r)

_validate_references(doc, r) ==
    LET ingredient_ids == IdSet(Get(doc, "ingredients", <<>>), "id")
        step_ids == IdSet(Get(doc, "steps", <<>>), "step_id")
        device_ids == IdSet(Get(doc, "device_profiles", <<>>), "id")
        r1 == CheckStepTargets(Get(doc, "steps", <<>>), ingredient_ids, step_ids, r)
    IN  CheckDeviceRefs(Get(doc, "steps", <<>>), device_ids, r1)

\* the version-compatibility check that ends _validate_custom_rules
VersionCheck(doc, version, r) ==
    IF "rcip_version" \in DOMAIN doc /\ doc["rcip_version"] # version
      THEN AppendWarning(r, <<"Recipe version {} may not be fully compatible with validator version {}",
                              doc["rcip_version"], version>>)
      ELSE r

_validate_custom_rules(doc, version, r) ==
    LET r1 == IF "id" \in DOMAIN doc /\ ~RECIPE_ID_PATTERN(doc["id"])
                THEN FailWith(r, <<"Invalid recipe ID format: {}", doc["id"]>>)
                ELSE r
        r2 == ForEachIngredient(Get(doc, "ingredients", <<>>), 0, r1)
        r3 == ForEachStep(Get(doc, "steps", <<>>), 0, r2)
        r4 == _validate_references(doc, r3)
    IN  VersionCheck(doc, version, r4)

(***************************************************************************)
(* Advisory rule set.                                                      *)
(***************************************************************************)
\* bool(x.get(key)) for a list- or dict-valued key: absent and empty are falsy
Truthy(d, key) == key \in DOMAIN d /\ DOMAIN d[key] # {}

\* warnings.append(m) when cond
WarnIf(cond, m) == IF cond THEN <<m>> ELSE <<>>

\* f"{total_time / 60:.1f}" as a number of tenths of an hour
HoursTenths(total_time) == (total_time * 10 + 30) \div 60

_check_warnings(doc) ==
    LET meta == Get(doc, "meta", EmptyObject)
        ingredients == Get(doc, "ingredients", <<>>)
        has_nutritional == \E i \in DOMAIN ingredients : "nutritional" \in DOMAIN ingredients[i]
        has_external_ids == \E i \in DOMAIN ingredients : Truthy(ingredients[i], "external_ids")
        total_time == Get(meta, "total_time_minutes", 0)
    IN     WarnIf("description" \notin DOMAIN meta, <<"Missing recommended field: meta.description">>)
        \o WarnIf("servings" \notin DOMAIN meta, <<"Missing recommended field: meta.servings">>)
        \o WarnIf("difficulty" \notin DOMAIN meta, <<"Missing recommended field: meta.difficulty">>)
        \o WarnIf(~has_nutritional, <<"No nutritional data provided for any ingredient">>)
        \o WarnIf(~has_external_ids, <<"No external IDs (USDA, GTIN, etc.) provided">>)
        \o WarnIf(Truthy(doc, "device_profiles") /\ ~Truthy(doc, "sensors"),
                  <<"Device profiles defined but no sensors specified">>)
        \o WarnIf(total_time > 1440,
                  <<"Very long cooking time ({} min / {} hours)", total_time, HoursTenths(total_time)>>)
        \o WarnIf(~Truthy(doc, "images"), <<"No images provided for recipe">>)

(***************************************************************************)
(* Report assembly.                                                        *)
(***************************************************************************)
PyNone == "None"

\* every string that can reach the allergen summary, in Python's string order
PyOrder ==
    <<"celery", "eggs", "fish", "gluten", "gold", "i", "k", "l", "lactose",
      "lupins", "m", "milk", "molluscs", "mustard", "peanuts", "sesame",
      "shellfish", "soybeans", "sulphites", "tree-nuts", "wheat">>

\* sorted(list(values))
RECURSIVE SortedFrom(_, _)
SortedFrom(order, values) ==
    IF order = <<>> THEN <<>>
    ELSE (IF Head(order) \in values THEN <<Head(order)>> ELSE <<>>)
         \o SortedFrom(Tail(order), values)

\* iterating ingredient.get('allergens', []): the items of a list, the
\* characters of a string
AllergensOf(ingredient) ==
    IF "allergens" \notin DOMAIN ingredient THEN {}
    ELSE IF ingredient["allergens"].type = "list"
      THEN {ingredient["allergens"].items[i] : i \in DOMAIN ingredient["allergens"].items}
    ELSE {ingredient["allergens"].chars[i] : i \in DOMAIN ingredient["allergens"].chars}

_get_recipe_info(doc) ==
    LET meta == Get(doc, "meta", EmptyObject)
        ingredients == Get(doc, "ingredients", <<>>)
    IN  [name |-> Get(meta, "name", "Unknown"),
         version |-> Get(doc, "rcip_version", PyNone),
         recipe_version |-> Get(meta, "version", PyNone),
         ingredient_count |-> Len(ingredients),
         step_count |-> Len(Get(doc, "steps", <<>>)),
         has_device_profiles |-> Truthy(doc, "device_profiles"),
         has_sensors |-> Truthy(doc, "sensors"),
         allergens |-> SortedFrom(PyOrder, UNION {AllergensOf(ingredients[i]) : i \in DOMAIN ingredients}),
         diet_labels |-> Get(meta, "diet_labels", <<>>),
         difficulty |-> Get(meta, "difficulty", "not specified"),
         total_time |-> Get(meta, "total_time_minutes", "not specified")]

\* the ValidationResult that validate_recipe builds for doc: schema
\* validation, custom rules, then warnings and info are assigned
RecipeResult(schema, version, doc) ==
    LET r0 == ValidationResult(TRUE, <<>>)
        r1 == SchemaValidation(schema, doc, r0)
        r2 == _validate_custom_rules(doc, version, r1)
        r3 == [r2 EXCEPT !.warnings = _check_warnings(doc)]
    IN  [r3 EXCEPT !.info = _get_recipe_info(doc)]

\* UpdateStats without the else: failed is incremented for every document
UpdateStats_NoElse(s, valid) ==
    [validated |-> s.validated + 1,
     passed |-> IF valid THEN s.passed + 1 ELSE s.passed,
     failed |-> s.failed + 1]

\* the "Update stats" block of validate_recipe
UpdateStats(s, valid) ==
    [validated |-> s.validated + 1,
     passed |-> IF valid THEN s.passed + 1 ELSE s.passed,
     failed |-> IF valid THEN s.failed ELSE s.failed + 1]

(***************************************************************************)
(* Documents.                                                              *)
(***************************************************************************)
\* all sequences over S of length at most n
SeqsUpTo(S, n) == UNION {[1..k -> S] : k \in 0..n}

ID_ING1 == STR_ING \o <<"1">>
ID_ING2 == STR_ING \o <<"2">>
ID_ING1_RESULT == ID_ING1 \o STR_RESULT
ID_S1 == STR_S \o <<"1">>
ID_S2 == STR_S \o <<"2">>
ID_STEP1 == <<"s", "t", "e", "p", "1">>
T_S1_RESULT == ID_S1 \o STR_RESULT
T_S2_RESULT == ID_S2 \o STR_RESULT
T_OVEN == <<"o", "v", "e", "n">>
HEX4 == <<"1", "a", "2", "b">>
DASH == <<"-">>
RID_OK == STR_RCIP \o HEX4 \o HEX4 \o DASH \o HEX4 \o DASH \o HEX4 \o DASH \o HEX4
          \o DASH \o HEX4 \o HEX4 \o HEX4
RID_BAD == STR_RCIP \o HEX4

ING_GOOD ==
    [id |-> ID_ING1, allergens |-> JList(<<"milk">>),
     machine_amount |-> [value |-> JNum(100), unit |-> "g"],
     nutritional |-> [kcal |-> 64], external_ids |-> [usda |-> "01077"]]
ING_PLAIN == [id |-> ID_ING2, allergens |-> JList(<<>>), external_ids |-> [gtin |-> "4006381333931"]]
ING_NO_ALLERGENS == [id |-> ID_ING1, machine_amount |-> [value |-> JNum(0), unit |-> "stone"]]
ING_EMPTY == EmptyObject
ING_ALLERGENS_STRING == [id |-> ID_ING1_RESULT, allergens |-> JStr(<<"m", "i", "l", "k">>)]
ING_BAD_VALUES ==
    [id |-> ID_ING2, allergens |-> JList(<<"milk", "gold", "eggs">>),
     machine_amount |-> [value |-> JNum(-1)], external_ids |-> EmptyObject]
ING_BAD_AMOUNT ==
    [allergens |-> JList(<<"eggs">>),
     machine_amount |-> [value |-> JStr(<<"1">>), unit |-> "cup"], nutritional |-> EmptyObject]

Ingredients ==
    {ING_GOOD, ING_PLAIN, ING_NO_ALLERGENS, ING_EMPTY, ING_ALLERGENS_STRING,
     ING_BAD_VALUES, ING_BAD_AMOUNT}

STEP_GOOD == [step_id |-> ID_S1, action |-> "mix", target |-> JList(<<JStr(ID_ING1)>>)]
STEP_SOFT ==
    [step_id |-> ID_S2, action |-> "zap",
     target |-> JList(<<JStr(ID_ING2), JStr(T_S1_RESULT)>>),
     hazards |-> JList(<<"hot-surface", "lava">>), device_profile_ref |-> "dp-9"]
STEP_NO_ID == [target |-> JList(<<JStr(T_S1_RESULT), JStr(T_S1_RESULT)>>), action |-> "bake"]
STEP_BAD_ID ==
    [step_id |-> ID_STEP1,
     target |-> JList(<<JStr(ID_ING1_RESULT), JNum(7), JStr(T_OVEN)>>),
     device_profile_ref |-> "dp-1"]
STEP_TARGET_STRING ==
    [step_id |-> ID_S1, target |-> JStr(ID_ING2), hazards |-> JStr(<<"l", "a", "v", "a">>)]
STEP_SELF ==
    [step_id |-> ID_S2, action |-> "rest",
     target |-> JList(<<JStr(T_S2_RESULT), JStr(ID_ING2)>>)]
STEP_BARE == [action |-> "wait"]

Steps ==
    {STEP_GOOD, STEP_SOFT, STEP_NO_ID, STEP_BAD_ID, STEP_TARGET_STRING, STEP_SELF,
     STEP_BARE}

META_FULL ==
    [name |-> "Pancakes", description |-> "Thin pancakes", servings |-> 4,
     difficulty |-> "easy", total_time_minutes |-> 30]
META_NO_DESCRIPTION == [name |-> "Pancakes", servings |-> 4, difficulty |-> "easy"]
META_LONG == [name |-> "Sourdough", total_time_minutes |-> 1500]

\* the part of a document outside ingredients and steps
HEAD_COMPLETE ==
    [id |-> RID_OK, rcip_version |-> "0.1", meta |-> META_FULL, images |-> <<"a.jpg">>]
HEAD_ADVISORY == [id |-> RID_OK, rcip_version |-> "0.1", meta |-> META_NO_DESCRIPTION]
HEAD_OTHER_VERSION == [id |-> RID_OK, rcip_version |-> "0.2", meta |-> META_NO_DESCRIPTION]
HEAD_DEVICES ==
    [id |-> RID_OK, rcip_version |-> "0.2", meta |-> META_LONG, images |-> <<>>,
     device_profiles |-> << [id |-> "dp-1"] >>]
HEAD_SENSORS ==
    [id |-> RID_BAD, meta |-> META_FULL, images |-> <<"a.jpg">>,
     device_profiles |-> << [id |-> "dp-1"], [name |-> "oven"] >>, sensors |-> <<"probe">>]
HEAD_EMPTY == EmptyObject

Heads ==
    {HEAD_COMPLETE, HEAD_ADVISORY, HEAD_OTHER_VERSION, HEAD_DEVICES, HEAD_SENSORS,
     HEAD_EMPTY}

\* head with its ingredients and steps; an empty list leaves the key out
Document(head, ingredients, steps) ==
    head @@ (IF ingredients = <<>> THEN EmptyObject ELSE [ingredients |-> ingredients])
         @@ (IF steps = <<>> THEN EmptyObject ELSE [steps |-> steps])

\* documents that vary their ingredients
IngredientDocs ==
    {Document(h, is, ss) :
        h \in Heads, is \in SeqsUpTo(Ingredients, MaxIngredients),
        ss \in {<<>>, <<STEP_GOOD>>, <<STEP_SOFT, STEP_NO_ID>>}}

\* documents that vary their steps
StepDocs ==
    {Document(h, is, ss) :
        h \in {HEAD_COMPLETE, HEAD_OTHER_VERSION},
        is \in {<<>>, <<ING_GOOD>>, <<ING_ALLERGENS_STRING, ING_PLAIN>>},
        ss \in SeqsUpTo(Steps, MaxSteps)}

Docs == IngredientDocs \cup StepDocs

\* the documents of a session
DOC_VALID == Document(HEAD_COMPLETE, <<ING_GOOD>>, <<STEP_GOOD>>)
DOC_ADVISORY == Document(HEAD_OTHER_VERSION, <<ING_PLAIN>>, <<STEP_SELF>>)
DOC_NO_ALLERGENS == Document(HEAD_COMPLETE, <<ING_GOOD, ING_NO_ALLERGENS>>, <<STEP_GOOD>>)
DOC_BAD_VALUES == Document(HEAD_DEVICES, <<ING_BAD_VALUES>>, <<STEP_SOFT>>)

SessionDocs == {DOC_VALID, DOC_ADVISORY, DOC_NO_ALLERGENS, DOC_BAD_VALUES}

(***************************************************************************)
(* The validator's operations.  Each yields the outcome of the call: the   *)
(* exception raised ("none" when it returns), the value returned and the   *)
(* statistics it leaves.                                                   *)
(***************************************************************************)
None == [type |-> "none"]

\* Draft7Validator(self.schema)
Draft7Validator(schema) == [type |-> "validator", required |-> schema.required]

SCHEMA_ANY == [required |-> <<>>]
SCHEMA_REQUIRED == [required |-> <<"id", "rcip_version", "ingredients", "steps">>]
Schemas == {SCHEMA_ANY, SCHEMA_REQUIRED}

\* what a schema path can lead to
SchemaFiles ==
    {[kind |-> "missing"], [kind |-> "invalid_json"]}
    \cup {[kind |-> "json", schema |-> s] : s \in Schemas}

DefaultVersion == "0.1"
Versions == {DefaultVersion, "0.2"}

Returned(value, s) == [raised |-> "none", value |-> value, stats |-> s]
Raised(exception, s) == [raised |-> exception, value |-> PyNone, stats |-> s]

\* validate_recipe that skips the schema check, instead of raising, when no
\* schema is loaded
validate_recipe_Unguarded(v, version, s, doc) ==
    LET r == RecipeResult(IF v = None THEN Draft7Validator(SCHEMA_ANY) ELSE v, version, doc)
    IN  Returned(r, UpdateStats(s, r.valid))

\* validate_recipe(recipe): its outcome on a validator v with statistics s
validate_recipe(v, version, s, doc) ==
    IF v = None THEN Raised("RuntimeError", s)
    ELSE LET r == RecipeResult(v, version, doc)
         IN  Returned(r, UpdateStats(s, r.valid))

\* validate_file without the except clause for json.JSONDecodeError
validate_file_Uncaught(v, version, s, file) ==
    IF file.kind = "missing"
      THEN Returned(ValidationResult(FALSE, << <<"File not found: {}", file.name>> >>), s)
    ELSE IF file.kind = "invalid_json" THEN Raised("JSONDecodeError", s)
    ELSE validate_recipe(v, version, s, file.doc)

\* validate_file(file_path)
validate_file(v, version, s, file) ==
    IF file.kind = "missing"
      THEN Returned(ValidationResult(FALSE, << <<"File not found: {}", file.name>> >>), s)
    ELSE IF file.kind = "invalid_json"
      THEN Returned(ValidationResult(FALSE, << <<"Invalid JSON: {}", "JSONDecodeError">> >>), s)
    ELSE validate_recipe(v, version, s, file.doc)

\* the loop of validate_directory over recipe_files
RECURSIVE DirectoryLoop(_, _, _, _, _)
DirectoryLoop(files, v, version, s, results) ==
    IF files = <<>> THEN Returned(results, s)
    ELSE LET o == validate_file(v, version, s, Head(files))
         IN  IF o.raised # "none" THEN Raised(o.raised, o.stats)
             ELSE DirectoryLoop(Tail(files), v, version, o.stats,
                                Append(results, [file |-> Head(files).name, result |-> o.value]))

validate_directory(v, version, s, files) == DirectoryLoop(files, v, version, s, <<>>)

reset_stats == ValidationStats

(***************************************************************************)
(* Files.                                                                  *)
(***************************************************************************)
\* the names of the files of a directory, in the order glob lists them
FileNames == <<"a.rcip", "b.rcip", "c.json", "d.json">>

\* what a recipe file can hold
FileContents(docs) ==
    {[kind |-> "missing"], [kind |-> "invalid_json"]}
    \cup {[kind |-> "json", doc |-> d] : d \in docs}

File(name, content) == content @@ [name |-> name]

\* the directories of at most MaxFiles files
Directories(docs) ==
    {[i \in 1..Len(cs) |-> File(FileNames[i], cs[i])] :
        cs \in SeqsUpTo(FileContents(docs), MaxFiles)}

(***************************************************************************)
(* The state machine: one validator and its caller.                        *)
(***************************************************************************)
Call(op, arg, o) == [op |-> op, arg |-> arg, raised |-> o.raised, value |-> o.value]

\* RCIPValidator(schema_version) for one of versions, and a caller that holds
\* one of docs
Constructed(versions, docs) ==
    /\ schema_version \in versions
    /\ validator = None
    /\ stats = ValidationStats
    /\ recipe \in docs
    /\ call = Call("__init__", PyNone, Returned(PyNone, ValidationStats))

\* the files a session reads: they hold the caller's document or a fixed one
FileDocs == {recipe, DOC_VALID}

\* init(schema_path)
CallInit ==
    \E f \in SchemaFiles :
        /\ validator' = (IF f.kind = "json" THEN Draft7Validator(f.schema) ELSE validator)
        /\ call' = Call("init", f,
                        IF f.kind = "json" THEN Returned(PyNone, stats)
                        ELSE IF f.kind = "missing" THEN Raised("FileNotFoundError", stats)
                        ELSE Raised("ValueError", stats))
        /\ UNCHANGED <<schema_version, stats, recipe>>

\* validate_recipe(recipe)
CallValidateRecipe ==
    LET o == validate_recipe(validator, schema_version, stats, recipe) IN
    /\ o.stats.validated <= MaxValidated
    /\ stats' = o.stats
    /\ call' = Call("validate_recipe", recipe, o)
    /\ UNCHANGED <<schema_version, validator, recipe>>

\* validate_file(file_path)
CallValidateFile ==
    \E c \in FileContents(FileDocs) :
        LET file == File(FileNames[1], c)
            o == validate_file(validator, schema_version, stats, file)
        IN  /\ o.stats.validated <= MaxValidated
            /\ stats' = o.stats
            /\ call' = Call("validate_file", file, o)
            /\ UNCHANGED <<schema_version, validator, recipe>>

\* validate_directory(directory)
CallValidateDirectory ==
    \E files \in Directories(FileDocs) :
        LET o == validate_directory(validator, schema_version, stats, files) IN
        /\ o.stats.validated <= MaxValidated
        /\ stats' = o.stats
        /\ call' = Call("validate_directory", files, o)
        /\ UNCHANGED <<schema_version, validator, recipe>>

\* reset_stats()
CallResetStats ==
    /\ stats' = reset_stats
    /\ call' = Call("reset_stats", PyNone, Returned(PyNone, reset_stats))
    /\ UNCHANGED <<schema_version, validator, recipe>>

\* the validator is built with the default schema_version
Init == Constructed({DefaultVersion}, SessionDocs)

Next ==
    \/ CallInit
    \/ CallValidateRecipe
    \/ CallValidateFile
    \/ CallValidateDirectory
    \/ CallResetStats

Spec == Init /\ [][Next]_vars

\* validate_recipe over the documents of Docs, on a validator that init()
\* has given a schema
DocInit ==
    /\ schema_version \in Versions
    /\ \E f \in SchemaFiles :
        /\ f.kind = "json"
        /\ validator = Draft7Validator(f.schema)
        /\ call = Call("init", f, Returned(PyNone, ValidationStats))
    /\ stats = ValidationStats
    /\ recipe \in Docs

DocNext == CallValidateRecipe

DocSpec == DocInit /\ [][DocNext]_vars

(***************************************************************************)
(* Properties.                                                             *)
(***************************************************************************)
\* the last call was validate_recipe and it returned a ValidationResult
RecipeReturned == call.op = "validate_recipe" /\ call.raised = "none"

\* the number of entries of seq equal to m
Count(seq, m) == Cardinality({k \in DOMAIN seq : seq[k] = m})

Has(seq, m) == \E k \in DOMAIN seq : seq[k] = m

IngredientsOf(doc) == Get(doc, "ingredients", <<>>)
StepsOf(doc) == Get(doc, "steps", <<>>)

\* C1: the result of validate_recipe has valid = TRUE exactly when its errors
\* are empty
C1_ValidIffNoErrors ==
    RecipeReturned => (call.value.valid <=> call.value.errors = <<>>)

\* C2: when the ingredient at position i of the document has no allergens
\* field, validate_recipe returns valid = FALSE and errors holds the finding
\* "Ingredient i: Missing required allergens field"
C2_MissingAllergensFails ==
    RecipeReturned =>
        \A p \in DOMAIN IngredientsOf(call.arg) :
            "allergens" \notin DOMAIN IngredientsOf(call.arg)[p] =>
                /\ call.value.valid = FALSE
                /\ Has(call.value.errors,
                       <<"Ingredient {}: Missing required allergens field", p - 1>>)

\* C2 witness: validate_recipe returned for a document whose second ingredient
\* has no allergens field while its first ingredient and its steps are present
C2_Witness ==
    /\ RecipeReturned
    /\ Len(IngredientsOf(call.arg)) = 2
    /\ "allergens" \in DOMAIN IngredientsOf(call.arg)[1]
    /\ "allergens" \notin DOMAIN IngredientsOf(call.arg)[2]
    /\ StepsOf(call.arg) # <<>>
    /\ Has(call.value.errors, <<"Ingredient {}: Missing required allergens field", 1>>)

\* the string entries of the target lists of doc, as <<step position, entry position>>
TargetEntries(doc) ==
    UNION {
        {<<p, q>> : q \in {k \in DOMAIN StepsOf(doc)[p]["target"].items :
                              StepsOf(doc)[p]["target"].items[k].type = "str"}} :
        p \in {j \in DOMAIN StepsOf(doc) :
                  /\ "target" \in DOMAIN StepsOf(doc)[j]
                  /\ StepsOf(doc)[j]["target"].type = "list"}}

EntryChars(doc, e) == StepsOf(doc)[e[1]]["target"].items[e[2]].chars

\* the step_id an entry's error is attributed to, "?" without one
EntryStep(doc, e) ==
    IF "step_id" \in DOMAIN StepsOf(doc)[e[1]] THEN StepsOf(doc)[e[1]]["step_id"] ELSE <<"?">>

DeclaredIngredientIds(doc) ==
    {IngredientsOf(doc)[i]["id"] :
        i \in {j \in DOMAIN IngredientsOf(doc) : "id" \in DOMAIN IngredientsOf(doc)[j]}}

DeclaredStepIds(doc) ==
    {StepsOf(doc)[i]["step_id"] :
        i \in {j \in DOMAIN StepsOf(doc) : "step_id" \in DOMAIN StepsOf(doc)[j]}}

HasIngPrefix(t) == Len(t) >= 4 /\ SubSeq(t, 1, 4) = <<"i", "n", "g", "-">>

HasResultMarker(t) ==
    \E i \in 1..Len(t) :
        i + 6 <= Len(t) /\ SubSeq(t, i, i + 6) = <<":", "r", "e", "s", "u", "l", "t">>

\* the portion of t before its first ':'
BeforeColon(t) ==
    IF \E i \in 1..Len(t) : t[i] = ":"
      THEN SubSeq(t, 1, (CHOOSE i \in 1..Len(t) : t[i] = ":" /\ \A j \in 1..(i - 1) : t[j] # ":") - 1)
      ELSE t

UnresolvedIngredientRef(doc, t) ==
    HasIngPrefix(t) /\ t \notin DeclaredIngredientIds(doc)

UnresolvedStepRef(doc, t) ==
    ~HasIngPrefix(t) /\ HasResultMarker(t) /\ BeforeColon(t) \notin DeclaredStepIds(doc)

\* the entries that share an entry's attribution and string
SameEntries(doc, e) ==
    {x \in TargetEntries(doc) :
        EntryStep(doc, x) = EntryStep(doc, e) /\ EntryChars(doc, x) = EntryChars(doc, e)}

IngredientRefError(doc, e) ==
    <<"Step {}: Invalid ingredient reference '{}'", EntryStep(doc, e), EntryChars(doc, e)>>

StepRefError(doc, e) ==
    <<"Step {}: Invalid step reference '{}'", EntryStep(doc, e), EntryChars(doc, e)>>

\* C3: every string entry of a step's target list that is an unresolved
\* reference has exactly one error in the result, of its kind and attributed
\* to the step's step_id or to "?": the errors that name the step and the
\* entry are as many as the entries they can stand for
C3_OneErrorPerUnresolvedRef ==
    RecipeReturned =>
        \A e \in TargetEntries(call.arg) :
            /\ UnresolvedIngredientRef(call.arg, EntryChars(call.arg, e)) =>
                /\ Count(call.value.errors, IngredientRefError(call.arg, e))
                      = Cardinality(SameEntries(call.arg, e))
                /\ Count(call.value.errors, StepRefError(call.arg, e)) = 0
            /\ UnresolvedStepRef(call.arg, EntryChars(call.arg, e)) =>
                /\ Count(call.value.errors, StepRefError(call.arg, e))
                      = Cardinality(SameEntries(call.arg, e))
                /\ Count(call.value.errors, IngredientRefError(call.arg, e)) = 0

\* C3 witness: validate_recipe returned for a document with an unresolved
\* ingredient reference in a step that has a step_id and an unresolved step
\* reference, listed twice, in a step that has none
C3_Witness ==
    /\ RecipeReturned
    /\ \E e \in TargetEntries(call.arg) :
        /\ UnresolvedIngredientRef(call.arg, EntryChars(call.arg, e))
        /\ EntryStep(call.arg, e) # <<"?">>
        /\ Has(call.value.errors, IngredientRefError(call.arg, e))
    /\ \E e \in TargetEntries(call.arg) :
        /\ UnresolvedStepRef(call.arg, EntryChars(call.arg, e))
        /\ "step_id" \notin DOMAIN StepsOf(call.arg)[e[1]]
        /\ Cardinality(SameEntries(call.arg, e)) = 2
        /\ Count(call.value.errors, StepRefError(call.arg, e)) = 2

\* C4: when the document declares an rcip_version that differs from the
\* validator's schema_version, the warnings of the result hold the
\* version-compatibility warning
C4_VersionWarningReported ==
    RecipeReturned =>
        (("rcip_version" \in DOMAIN call.arg /\ call.arg["rcip_version"] # schema_version) =>
            Has(call.value.warnings,
                <<"Recipe version {} may not be fully compatible with validator version {}",
                  call.arg["rcip_version"], schema_version>>))

\* the positions of the ingredients whose machine_amount has a unit outside
\* the unit vocabulary
NonStandardUnits(doc) ==
    {p \in DOMAIN IngredientsOf(doc) :
        /\ "machine_amount" \in DOMAIN IngredientsOf(doc)[p]
        /\ "unit" \in DOMAIN IngredientsOf(doc)[p]["machine_amount"]
        /\ IngredientsOf(doc)[p]["machine_amount"]["unit"] \notin Unit}

\* <<step position, hazard>> for the listed hazards outside the hazard vocabulary
NonStandardHazards(doc) ==
    UNION {
        {<<p, StepsOf(doc)[p]["hazards"].items[k]>> :
            k \in {j \in DOMAIN StepsOf(doc)[p]["hazards"].items :
                      StepsOf(doc)[p]["hazards"].items[j] \notin valid_hazards}} :
        p \in {j \in DOMAIN StepsOf(doc) :
                  /\ "hazards" \in DOMAIN StepsOf(doc)[j]
                  /\ StepsOf(doc)[j]["hazards"].type = "list"}}

DeclaredDeviceIds(doc) ==
    {Get(doc, "device_profiles", <<>>)[i]["id"] :
        i \in {j \in DOMAIN Get(doc, "device_profiles", <<>>) :
                  "id" \in DOMAIN Get(doc, "device_profiles", <<>>)[j]}}

\* the positions of the steps whose device_profile_ref is no declared device profile
UnknownDeviceRefs(doc) ==
    {p \in DOMAIN StepsOf(doc) :
        /\ "device_profile_ref" \in DOMAIN StepsOf(doc)[p]
        /\ StepsOf(doc)[p]["device_profile_ref"] \notin DeclaredDeviceIds(doc)}

\* C5: every non-standard unit, every non-standard hazard and every unknown
\* device_profile_ref of the document is a warning of the result
C5_SoftFindingsReported ==
    RecipeReturned =>
        /\ \A p \in NonStandardUnits(call.arg) :
            Has(call.value.warnings,
                <<"Ingredient {}: Non-standard unit '{}'", p - 1,
                  IngredientsOf(call.arg)[p]["machine_amount"]["unit"]>>)
        /\ \A h \in NonStandardHazards(call.arg) :
            Has(call.value.warnings, <<"Step {}: Non-standard hazard '{}'", h[1] - 1, h[2]>>)
        /\ \A p \in UnknownDeviceRefs(call.arg) :
            Has(call.value.warnings,
                <<"Step {}: Unknown device profile '{}'",
                  Get(StepsOf(call.arg)[p], "step_id", <<"?">>),
                  StepsOf(call.arg)[p]["device_profile_ref"]>>)

\* the statistics after one more document, passed or failed
Counted(s, valid) ==
    [validated |-> s.validated + 1,
     passed |-> s.passed + (IF valid THEN 1 ELSE 0),
     failed |-> s.failed + (IF valid THEN 0 ELSE 1)]

\* the positions of the files of a directory that hold a JSON document
JsonFiles(files) == {i \in DOMAIN files : files[i].kind = "json"}

\* what a step of the session does to the counters, by the operation called
CountersStep ==
    /\ stats'.validated = stats'.passed + stats'.failed
    /\ call'.op = "validate_recipe" =>
        stats' = (IF call'.raised = "none" THEN Counted(stats, call'.value.valid) ELSE stats)
    /\ call'.op = "validate_file" =>
        stats' = (IF call'.raised = "none" /\ call'.arg.kind = "json"
                    THEN Counted(stats, call'.value.valid) ELSE stats)
    /\ call'.op = "validate_directory" =>
        stats' = (IF call'.raised = "none"
                    THEN [validated |-> stats.validated + Cardinality(JsonFiles(call'.arg)),
                          passed |-> stats.passed
                                     + Cardinality({i \in JsonFiles(call'.arg) : call'.value[i].result.valid}),
                          failed |-> stats.failed
                                     + Cardinality({i \in JsonFiles(call'.arg) : ~call'.value[i].result.valid})]
                    ELSE stats)
    /\ call'.op = "reset_stats" => stats' = [validated |-> 0, passed |-> 0, failed |-> 0]
    /\ call'.op = "init" => stats' = stats

\* C6: validated = passed + failed always; every completed validate_recipe
\* call (made directly, or by validate_file or validate_directory for a
\* document they could load) adds 1 to validated and 1 to passed when the
\* result is valid, to failed when it is not; reset_stats sets the three
\* counters to 0; nothing else changes them
C6_CountersTrackCalls ==
    /\ stats.validated = stats.passed + stats.failed
    /\ [][CountersStep]_vars

\* C6 witness: validate_recipe has just returned on a validator that has
\* counted both a passed and a failed document
C6_Witness ==
    /\ RecipeReturned
    /\ stats.passed >= 1
    /\ stats.failed >= 1
    /\ stats.validated = stats.passed + stats.failed

\* C7: the validator is None until an init call returns, and as long as it
\* is None a validate_recipe call (also the one validate_file makes for a
\* document it loaded) raises RuntimeError and leaves the counters alone
C7_UninitialisedRaises ==
    /\ validator = [type |-> "none"]
    /\ [][validator = [type |-> "none"] =>
            /\ ~(call'.op = "init" /\ call'.raised = "none") => validator' = [type |-> "none"]
            /\ call'.op = "validate_recipe" =>
                call'.raised = "RuntimeError" /\ stats' = stats
            /\ (call'.op = "validate_file" /\ call'.arg.kind = "json") =>
                call'.raised = "RuntimeError" /\ stats' = stats]_vars

\* C7 witness: validate_recipe has raised on a validator whose last init failed
\* or never ran
C7_Witness ==
    /\ call.op = "validate_recipe"
    /\ call.raised = "RuntimeError"
    /\ validator = [type |-> "none"]
    /\ stats = [validated |-> 0, passed |-> 0, failed |-> 0]

OnlyThreeOmissions(doc) ==
    LET meta == Get(doc, "meta", <<>>) IN
    /\ "description" \notin DOMAIN meta
    /\ "servings" \in DOMAIN meta
    /\ "difficulty" \in DOMAIN meta
    /\ Get(meta, "total_time_minutes", 0) <= 1440
    /\ Get(doc, "images", <<>>) = <<>>
    /\ \A p \in DOMAIN IngredientsOf(doc) : "nutritional" \notin DOMAIN IngredientsOf(doc)[p]
    /\ \E p \in DOMAIN IngredientsOf(doc) :
        /\ "external_ids" \in DOMAIN IngredientsOf(doc)[p]
        /\ DOMAIN IngredientsOf(doc)[p]["external_ids"] # {}
    /\ Get(doc, "device_profiles", <<>>) = <<>> \/ Get(doc, "sensors", <<>>) # <<>>
    /\ NonStandardUnits(doc) = {}
    /\ NonStandardHazards(doc) = {}
    /\ UnknownDeviceRefs(doc) = {}

VersionDiffers(doc) == "rcip_version" \in DOMAIN doc /\ doc["rcip_version"] # schema_version

\* C9: a document without any error-level finding is valid with empty errors,
\* and when its only advisory conditions are the missing meta.description,
\* images and nutritional data its warnings are those three, and the
\* version-compatibility warning when its rcip_version differs
C9_AdvisoryOnly ==
    (RecipeReturned /\ call.value.errors = <<>>) =>
        /\ call.value.valid
        /\ OnlyThreeOmissions(call.arg) =>
            /\ Has(call.value.warnings, <<"Missing recommended field: meta.description">>)
            /\ Has(call.value.warnings, <<"No nutritional data provided for any ingredient">>)
            /\ Has(call.value.warnings, <<"No images provided for recipe">>)
            /\ Len(call.value.warnings) = 3 + (IF VersionDiffers(call.arg) THEN 1 ELSE 0)
            /\ VersionDiffers(call.arg) =>
                Has(call.value.warnings,
                    <<"Recipe version {} may not be fully compatible with validator version {}",
                      call.arg["rcip_version"], schema_version>>)

\* a file that cannot be loaded: missing, or not JSON
InputError(file) == file.kind \in {"missing", "invalid_json"}

\* the result of an input error: invalid, one error, nothing else
InputErrorResult(r) ==
    /\ r.valid = FALSE
    /\ Len(r.errors) = 1
    /\ r.warnings = <<>>
    /\ DOMAIN r.info = {}

\* C10: validate_file on a missing or unparseable file returns an invalid
\* result with exactly one error, no warnings and no info, and leaves the
\* counters alone; validate_directory on an initialised validator returns one
\* entry per file, in the order of the files: that result for a file that
\* cannot be loaded, and the result of validating its document for every
\* other file, each of them counted
C10_InputErrorsDoNotStop ==
    [][/\ (call'.op = "validate_file" /\ InputError(call'.arg)) =>
            /\ call'.raised = "none"
            /\ InputErrorResult(call'.value)
            /\ stats' = stats
       /\ (call'.op = "validate_directory" /\ validator # [type |-> "none"]) =>
            /\ call'.raised = "none"
            /\ Len(call'.value) = Len(call'.arg)
            /\ \A i \in DOMAIN call'.arg :
                /\ call'.value[i].file = call'.arg[i].name
                /\ IF InputError(call'.arg[i])
                     THEN InputErrorResult(call'.value[i].result)
                     ELSE call'.value[i].result
                            = RecipeResult(validator, schema_version, call'.arg[i].doc)
            /\ stats'.validated = stats.validated + Cardinality(JsonFiles(call'.arg))]_vars

\* C10 witness: validate_directory has returned two entries for a directory
\* whose first file is not JSON and whose second file holds a document, which
\* was validated and counted
C10_Witness ==
    /\ call.op = "validate_directory"
    /\ call.raised = "none"
    /\ Len(call.arg) = 2
    /\ call.arg[1].kind = "invalid_json"
    /\ call.arg[2].kind = "json"
    /\ Len(call.value) = 2
    /\ DOMAIN call.value[2].result.info # {}
    /\ stats.validated >= 1

\* a target string with the ingredient-id prefix that is a declared ingredient id
ResolvedIngredientRef(doc, t) ==
    HasIngPrefix(t) /\ t \in DeclaredIngredientIds(doc)

\* a target string that is neither an ingredient reference nor a step reference
OtherForm(t) == ~HasIngPrefix(t) /\ ~HasResultMarker(t)

\* the errors of the result that name the step and the string of entry e
NoReferenceError(doc, r, e) ==
    /\ Count(r.errors, IngredientRefError(doc, e)) = 0
    /\ Count(r.errors, StepRefError(doc, e)) = 0

\* C11: a target string with the prefix 'ing-' is checked only against the
\* ingredient ids: when it is a declared ingredient id the result has no
\* reference error for the entry, even when the string contains ':result';
\* no string with the prefix gets a step-reference error; a string of any
\* other form gets no reference error
C11_IngPrefixOnlyIngredientRule ==
    RecipeReturned =>
        \A e \in TargetEntries(call.arg) :
            /\ ResolvedIngredientRef(call.arg, EntryChars(call.arg, e)) =>
                NoReferenceError(call.arg, call.value, e)
            /\ HasIngPrefix(EntryChars(call.arg, e)) =>
                Count(call.value.errors, StepRefError(call.arg, e)) = 0
            /\ OtherForm(EntryChars(call.arg, e)) =>
                NoReferenceError(call.arg, call.value, e)

\* the part of C11 that leaves out strings holding ':result': a declared
\* ingredient id without the marker, and a string of any other form, get no
\* reference error
C11_WithoutResultMarker ==
    RecipeReturned =>
        \A e \in TargetEntries(call.arg) :
            /\ (/\ ResolvedIngredientRef(call.arg, EntryChars(call.arg, e))
                /\ ~HasResultMarker(EntryChars(call.arg, e))) =>
                NoReferenceError(call.arg, call.value, e)
            /\ OtherForm(EntryChars(call.arg, e)) =>
                NoReferenceError(call.arg, call.value, e)

\* validate_recipe returned for a document that declares the ingredient id
\* 'ing-1:result' and lists it, next to a string of another form, as a target
C11_Case ==
    /\ RecipeReturned
    /\ \E e \in TargetEntries(call.arg) :
        /\ ResolvedIngredientRef(call.arg, EntryChars(call.arg, e))
        /\ HasResultMarker(EntryChars(call.arg, e))
        /\ Has(call.value.errors, StepRefError(call.arg, e))
    /\ \E e \in TargetEntries(call.arg) : OtherForm(EntryChars(call.arg, e))
    /\ \E e \in TargetEntries(call.arg) :
        /\ ResolvedIngredientRef(call.arg, EntryChars(call.arg, e))
        /\ ~HasResultMarker(EntryChars(call.arg, e))

====
